---- MODULE Spec2Model ----
(***************************************************************************)
(* Hotline back office: the inventory ledger (Stock + append-only          *)
(* StockAdjustment) as driven by the request handlers, and the permission  *)
(* resolver.  A request handler is an async function: every `await` on a   *)
(* database call is one atomic step, and steps of different requests       *)
(* interleave freely.                                                      *)
(***************************************************************************)
EXTENDS Integers, Sequences, FiniteSets, TLC

\* ---------------------------------------------------------------- bounds
MaxRequests == 2     \* requests (and seed runs) started after the seeds
MaxItemQty == 2      \* largest quantity on one request line
MaxLines == 2        \* most item lines in one request
SeedQty == 3         \* quantity the inventory seed gives a stocked product
MaxExchangeLines == 1 \* most returned and most new lines in one exchange
MaxOverrides == 2    \* most entries in a directPermissions list
MaxRequired == 2     \* most codes one authorize guard requires

Products == {"p1", "p2"}
SeededProducts == {"p1"}     \* products that existed when the inventory seed ran
Reqs == {1, 2}               \* request slots: requests in flight at the same time

\* ------------------------------------------------------------- constants
ADJUSTMENT_TYPES ==
  {"ADDITION", "REDUCTION", "PURCHASE", "SALE", "RETURN", "DAMAGE", "THEFT",
   "CORRECTION", "TRANSFER_IN", "TRANSFER_OUT"}

\* ADJUSTMENT_TYPES.<name>: a property lookup, undefined for a missing key
AdjustmentType(name) == IF name \in ADJUSTMENT_TYPES THEN name ELSE "undefined"

SALE_STATUS == {"PENDING", "COMPLETED", "VOIDED"}
REPAIR_STATUS == {"RECEIVED", "IN_PROGRESS", "READY", "COMPLETED", "CANCELLED"}
WARRANTY_STATUS == {"ACTIVE", "EXPIRED", "CLAIMED", "VOID"}
CLAIM_RESOLUTIONS == {"REPAIR", "REPLACE", "REFUND", "REJECTED"}
RETURN_TYPES == {"REFUND", "EXCHANGE"}

\* product documents (static): selling price and warranty months
sellingPrice(p) == IF p = "p1" THEN 2 ELSE 1
warrantyDuration(p) == IF p = "p1" THEN 12 ELSE 0

VARIABLES
  stock,        \* Stock collection: product -> [exists, quantity]
  adjustments,  \* StockAdjustment collection, in creation order
  sales,        \* Sale collection, in creation order (deleted: removed by deleteMany)
  returns,      \* Return collection, in creation order
  repairs,      \* RepairJob collection
  warranties,   \* Warranty collection, in creation order
  req,          \* the request slots: handler, position, locals, outcome
  started,      \* history: requests started so far
  principal,    \* the User document the permission checks load
  check,        \* history: the last permission check made and its outcome
  account,      \* the principal's User document in the collection: exists, isActive
  totals        \* a createSale body's priced items and discount, and the totals stored for it

ledger == <<stock, adjustments, sales, returns, repairs, warranties, req, started>>
auth == <<principal, check, account, totals>>
vars == <<ledger, auth>>

\* ---------------------------------------------------------------- helpers
Range(s) == {s[k] : k \in 1..Len(s)}

Max(a, b) == IF a >= b THEN a ELSE b

SetMax(S) == CHOOSE m \in S : \A n \in S : n <= m

\* `stock ? stock.quantity : 0` after Stock.findOne({ product })
Qty(p) == IF stock[p].exists THEN stock[p].quantity ELSE 0

Line(p, q, t) == [product |-> p, quantity |-> q, type |-> t]

RECURSIVE LinesOf(_, _)
LinesOf(items, t) ==
  IF items = <<>> THEN <<>>
  ELSE <<Line(Head(items).product, Head(items).quantity, t)>> \o LinesOf(Tail(items), t)

\* every list of 1..n request items
ItemLists(t, n) ==
  UNION {[1..m -> {Line(p, q, t) : p \in Products, q \in 1..MaxItemQty}] : m \in 1..n}

\* every list of 1..n return items { saleItemId, quantity } against a sale of k items
ReturnLists(k, n) ==
  UNION {[1..m -> [item : 1..k, quantity : 1..MaxItemQty]] : m \in 1..n}

\* total quantity a list of lines asks of product p
RECURSIVE Requested(_, _)
Requested(lines, p) ==
  IF lines = <<>> THEN 0
  ELSE (IF Head(lines).product = p THEN Head(lines).quantity ELSE 0) + Requested(Tail(lines), p)

\* sum over the lines of one type of unit price * quantity
RECURSIVE LinesTotal(_, _)
LinesTotal(lines, t) ==
  IF lines = <<>> THEN 0
  ELSE (IF Head(lines).type = t THEN sellingPrice(Head(lines).product) * Head(lines).quantity ELSE 0)
       + LinesTotal(Tail(lines), t)

\* ---------------------------------------------------------- request slots
\* cost / pstat: the totalCost and paymentStatus the pre-save hook assigned
\* to the loaded repair job, when they differ from the loaded values
NotModified == 0 - 1

\* nw / na are history: stock writes and adjustments this request committed
IdleReq ==
  [op |-> "idle", pc |-> "idle", lines |-> <<>>, i |-> 0, u |-> 0, prev |-> 0, newq |-> 0,
   ref |-> 0, made |-> 0, num |-> 0, rnum |-> 0, cust |-> FALSE, paid |-> 0, st |-> "",
   who |-> "", resolution |-> "", token |-> "", barred |-> FALSE, result |-> "", nw |-> 0,
   na |-> 0, cost |-> NotModified, pstat |-> ""]

NewReq(opName) == [IdleReq EXCEPT !.op = opName]

InFlight(r) == req[r].pc \notin {"idle", "done"}

\* a slot is free once its response has been sent; a new request takes the
\* first free slot (slots are interchangeable)
Accepts(r) ==
  /\ started < MaxRequests
  /\ ~InFlight(r)
  /\ \A o \in Reqs : (o < r) => InFlight(o)

\* the response: the handler's locals are gone, the outcome stays on record
Respond(rq, res) ==
  [rq EXCEPT !.pc = "done", !.result = res, !.i = 0, !.u = 0, !.prev = 0, !.newq = 0,
             !.num = 0, !.rnum = 0, !.paid = 0, !.st = "", !.made = 0, !.who = "",
             !.cost = NotModified, !.pstat = ""]

Fail(rq, err) == Respond(rq, err)
Ok(rq) == Respond(rq, "ok")

CurLine(rq) == rq.lines[rq.i]

\* ------------------------------------------------------------ schema rules
\* a Stock schema without the min validator
StockQuantityUnchecked(q) == TRUE

\* stockSchema.quantity: min 0, enforced by validation on save()
StockQuantityValid(q) == q >= 0

\* stockAdjustmentSchema: type required and in the enum, quantity min 1
AdjustmentValid(t, q) == t \in ADJUSTMENT_TYPES /\ q >= 1

\* unique indexes on saleNumber, returnNumber, warrantyNumber
SaleNumberFree(n) == \A k \in 1..Len(sales) : sales[k].deleted \/ sales[k].saleNumber # n
ReturnNumberFree(n) == \A k \in 1..Len(returns) : returns[k].returnNumber # n
WarrantyNumberFree(n) == \A k \in 1..Len(warranties) : warranties[k].warrantyNumber # n

\* generate<X>Number: the last number of the day plus one
NextNumber(S) == IF S = {} THEN 1 ELSE SetMax(S) + 1
generateSaleNumber == NextNumber({sales[k].saleNumber : k \in {j \in 1..Len(sales) : ~sales[j].deleted}})
generateReturnNumber == NextNumber({returns[k].returnNumber : k \in 1..Len(returns)})
generateWarrantyNumber == NextNumber({warranties[k].warrantyNumber : k \in 1..Len(warranties)})

\* generateClaimNumber: the number of claims of the day, over all warranties, plus one
RECURSIVE CountClaims(_)
CountClaims(ws) == IF ws = <<>> THEN 0 ELSE Len(Head(ws).claims) + CountClaims(Tail(ws))
generateClaimNumber == CountClaims(warranties) + 1

\* -------------------------------------------------- per-handler arithmetic
\* adjustStock: direction list and newQuantity
isAddition(t) == t \in {"ADDITION", "PURCHASE", "RETURN", "TRANSFER_IN", "CORRECTION"}
AdjustNewQuantity(t, prevq, q) == IF isAddition(t) THEN prevq + q ELSE prevq - q

\* createSale, createExchange (new items): newQuantity = previousQuantity - item.quantity
SaleNewQuantity(prevq, q) == prevq - q

\* a restore loop that puts nothing back
RestoreNothing(prevq, q) == prevq

\* voidSale, createReturn, createExchange (returned items): previousQuantity + item.quantity
RestoreNewQuantity(prevq, q) == prevq + q

\* completeRepair: stock.quantity -= part.quantity
RepairNewQuantity(prevq, q) == prevq - q

\* cancelRepair: stock.quantity += part.quantity
CancelNewQuantity(prevq, q) == prevq + q

\* createClaim, REPLACE: stock.quantity -= 1
ReplaceNewQuantity(prevq) == prevq - 1

\* sales seed: stock.quantity = Math.max(0, prev - qty)
SeedNewQuantity(prevq, q) == Max(0, prevq - q)

\* createExchange: exchangeAmountDue = newItemsTotal - totalRefund
ExchangeAmountDue(lines) == LinesTotal(lines, "SALE") - LinesTotal(lines, "RETURN")

\* quantity the handler computes for the line it is on
NewQuantity(rq, prevq) ==
  LET ln == CurLine(rq) IN
  CASE rq.op = "adjustStock" -> AdjustNewQuantity(ln.type, prevq, ln.quantity)
    [] rq.op = "createSale" -> SaleNewQuantity(prevq, ln.quantity)
    [] rq.op \in {"voidSale", "createReturn"} -> RestoreNewQuantity(prevq, ln.quantity)
    [] rq.op = "createExchange" ->
         IF ln.type = "RETURN" THEN RestoreNewQuantity(prevq, ln.quantity)
         ELSE SaleNewQuantity(prevq, ln.quantity)
    [] rq.op = "completeRepair" -> RepairNewQuantity(prevq, ln.quantity)
    [] rq.op = "cancelRepair" -> CancelNewQuantity(prevq, ln.quantity)
    [] rq.op = "createClaim" -> ReplaceNewQuantity(prevq)
    [] rq.op = "seedSales" -> SeedNewQuantity(prevq, ln.quantity)

\* the check the handler makes between loading the record and saving it
LoadCheckFails(rq, prevq) ==
  CASE rq.op = "adjustStock" -> NewQuantity(rq, prevq) < 0
    [] rq.op = "completeRepair" -> prevq < CurLine(rq).quantity
    [] rq.op = "createClaim" -> prevq < 1
    [] OTHER -> FALSE

\* handlers that load the record with Stock.getOrCreate (the others use findOne)
UsesGetOrCreate(opName) ==
  opName \in {"adjustStock", "createSale", "voidSale", "createReturn", "createExchange",
              "cancelRepair", "createClaim"}

\* createSale: the first item at or after position k whose product carries a warranty
RECURSIVE FirstWarrantyItem(_, _)
FirstWarrantyItem(lines, k) ==
  IF k > Len(lines) THEN 0
  ELSE IF warrantyDuration(lines[k].product) > 0 THEN k
  ELSE FirstWarrantyItem(lines, k + 1)

WarrantyLoop(rq, k) ==
  IF FirstWarrantyItem(rq.lines, k) = 0 THEN Ok(rq)
  ELSE [rq EXCEPT !.pc = "wnumber", !.i = FirstWarrantyItem(rq.lines, k), !.u = 1]

\* position after the last line's adjustment
AfterLines(rq) ==
  CASE rq.op \in {"voidSale", "completeRepair", "cancelRepair", "createClaim"} ->
         [rq EXCEPT !.pc = "finish"]
    [] rq.op = "createSale" -> IF rq.cust THEN WarrantyLoop(rq, 1) ELSE Ok(rq)
    [] rq.op = "seedSales" -> [rq EXCEPT !.pc = "persist"]
    [] OTHER -> Ok(rq)

NextLine(rq) ==
  IF rq.i < Len(rq.lines) THEN [rq EXCEPT !.i = rq.i + 1, !.pc = "find"]
  ELSE AfterLines(rq)

AfterLoad(rq, prevq) ==
  IF LoadCheckFails(rq, prevq) THEN Fail(rq, "InsufficientStock")
  ELSE [rq EXCEPT !.pc = "save", !.prev = prevq, !.newq = NewQuantity(rq, prevq)]

\* findOne found no record: the seed skips the line, completeRepair reads 0
AfterMissing(rq) == IF rq.op = "seedSales" THEN NextLine(rq) ELSE AfterLoad(rq, 0)

\* after the adjustment of a line: the return handlers void the line's warranties
AfterAdjust(rq) ==
  IF rq.op \in {"createReturn", "createExchange"} /\ CurLine(rq).type = "RETURN"
  THEN [rq EXCEPT !.pc = "wvoid"]
  ELSE NextLine(rq)

\* ---------------------------------------------------- permission resolver
Codes == {"CREATE_SALE", "VOID_SALE"}
\* the codes the repair routes ask for when a job is read
RepairCodes == {"VIEW_REPAIRS", "VIEW_OWN_REPAIRS"}
Roles == {"MANAGER", "CASHIER", "TECHNICIAN"}
OverrideTypes == {"ALLOW", "DENY"}

\* the role seed's ROLE_PERMISSIONS, cut down to Codes and RepairCodes
ROLE_PERMISSIONS(role) ==
  CASE role = "MANAGER" -> {"CREATE_SALE", "VOID_SALE", "VIEW_REPAIRS"}
    [] role = "CASHIER" -> {"CREATE_SALE", "VIEW_REPAIRS"}
    [] role = "TECHNICIAN" -> {"VIEW_OWN_REPAIRS"}
    [] OTHER -> {}

\* user.roles.flatMap(r => r.permissions.map(p => p.code))
rolePerms(u) == UNION {ROLE_PERMISSIONS(role) : role \in u.roles}

\* a resolver that never looks at directPermissions
NoDirectPerm(dps, c) == 0

\* directPermissions.find(dp => dp.permission.code === permCode): the position
\* of the first entry for the code, 0 for undefined
directPerm(dps, c) ==
  IF \E k \in 1..Len(dps) : dps[k].permission = c
  THEN CHOOSE k \in 1..Len(dps) :
         /\ dps[k].permission = c
         /\ \A j \in 1..(k - 1) : dps[j].permission # c
  ELSE 0

\* authorize: the `allowed` flag pushed for one required code
permissionAllowed(u, c) ==
  LET k == directPerm(u.directPermissions, c) IN
  IF k # 0 THEN u.directPermissions[k].type # "DENY"
  ELSE c \in rolePerms(u)

\* authorize(permissionCode, { requireAll }) for the loaded user
authorize(u, required, requireAll) ==
  IF u.isSuperAdmin THEN TRUE
  ELSE LET allowedCount == Cardinality({k \in 1..Len(required) : permissionAllowed(u, required[k])})
       IN IF requireAll THEN allowedCount = Len(required) ELSE allowedCount > 0

\* userSchema.methods.hasPermission
hasPermission(u, c) ==
  IF u.isSuperAdmin THEN TRUE
  ELSE LET k == directPerm(u.directPermissions, c) IN
       IF k # 0 THEN u.directPermissions[k].type = "ALLOW"
       ELSE c \in rolePerms(u)

\* getEffectivePermissions: directPermissions.forEach over the role set,
\* ALLOW adds the code, DENY deletes it
RECURSIVE applyOverrides(_, _)
applyOverrides(allowedPerms, dps) ==
  IF dps = <<>> THEN allowedPerms
  ELSE applyOverrides(
         IF Head(dps).type = "ALLOW" THEN allowedPerms \cup {Head(dps).permission}
         ELSE allowedPerms \ {Head(dps).permission},
         Tail(dps))

\* userSchema.methods.getEffectivePermissions: effectivePermissions ("ALL",
\* here every code, for a super admin)
getEffectivePermissions(u) ==
  IF u.isSuperAdmin THEN Codes \cup RepairCodes ELSE applyOverrides(rolePerms(u), u.directPermissions)

\* lists of at most n elements of S
SeqsUpTo(S, n) == UNION {[1..m -> S] : m \in 0..n}

Overrides == [permission : Codes, type : OverrideTypes]

\* the User documents the schema admits: at least one role, any list of overrides
UserDocuments ==
  [roles : (SUBSET Roles) \ {{}},
   directPermissions : SeqsUpTo(Overrides, MaxOverrides),
   isSuperAdmin : BOOLEAN]

SeedPrincipal == [roles |-> {"MANAGER"}, directPermissions |-> <<>>, isSuperAdmin |-> FALSE]

\* no createSale body priced yet
ZeroTotals == [subtotal |-> 0, discountTotal |-> 0, taxTotal |-> 0, grandTotal |-> 0]
NoTotals ==
  [items |-> <<>>, discountType |-> "none", discountValue |-> 0, priced |-> FALSE,
   stored |-> ZeroTotals]

\* the adminSeed user: isActive true
SeedAccount == [exists |-> TRUE, isActive |-> TRUE]

NoCheck ==
  [fn |-> "none", required |-> <<>>, requireAll |-> FALSE, granted |-> FALSE, effective |-> {}]


\* ------------------------------------------------------------------ Init
\* the inventory seed: one Stock record and one PURCHASE adjustment per
\* product; the sales seed: one sale of one unit; the warranty seed: one
\* manual warranty; the repair seed: one job in progress with a part listed
SeedSaleLines == <<Line("p1", 1, "SALE")>>

SeedAdjustments ==
  <<[product |-> "p1", type |-> "PURCHASE", quantity |-> SeedQty,
     previousQuantity |-> 0, newQuantity |-> SeedQty, reason |-> "seedInventory", reference |-> 0],
    [product |-> "p1", type |-> "SALE", quantity |-> 1,
     previousQuantity |-> SeedQty, newQuantity |-> SeedNewQuantity(SeedQty, 1),
     reason |-> "seedSales", reference |-> 1]>>

SeedStock ==
  [p \in Products |->
     IF p \in SeededProducts THEN [exists |-> TRUE, quantity |-> SeedNewQuantity(SeedQty, 1)]
     ELSE [exists |-> FALSE, quantity |-> 0]]

SeedSales ==
  <<[saleNumber |-> 1, items |-> SeedSaleLines, status |-> "COMPLETED", cust |-> FALSE,
     deleted |-> FALSE]>>

SeedWarranties ==
  <<[warrantyNumber |-> 1, sale |-> 0, product |-> "p1", status |-> "ACTIVE", ended |-> FALSE,
     claims |-> <<>>]>>

\* repairJobSchema.pre("save"): partsTotal and totalCost are recomputed,
\* paymentStatus follows the amount paid
partsTotal(parts) == LinesTotal(parts, "SALE")
totalCost(laborCost, parts) == laborCost + partsTotal(parts)
paymentStatus(totalPaid, cost) ==
  IF totalPaid >= cost /\ cost > 0 THEN "PAID"
  ELSE IF totalPaid > 0 THEN "PARTIAL"
  ELSE "PENDING"

\* the hook at work on job j as loaded, with the parts and payments the
\* handler assigned: a path is written when its value changed
PreSave(rq, j, laborCost, parts, totalPaid) ==
  [rq EXCEPT
     !.cost = IF totalCost(laborCost, parts) # repairs[j].totalCost
              THEN totalCost(laborCost, parts) ELSE NotModified,
     !.pstat = IF paymentStatus(totalPaid, totalCost(laborCost, parts)) # repairs[j].paymentStatus
               THEN paymentStatus(totalPaid, totalCost(laborCost, parts)) ELSE ""]

\* the seeded job carries a labor cost; completeRepair is asked without one
\* (repair.laborCost = laborCost || 0)
SeedLaborCost == 1
NoLaborCost == 0

SeedRepairs ==
  <<[jobNumber |-> 1, status |-> "IN_PROGRESS", assignedTo |-> "admin",
     partsUsed |-> <<Line("p1", 1, "SALE")>>, advancePayment |-> 1, finalPayment |-> 0,
     laborCost |-> SeedLaborCost,
     totalCost |-> totalCost(SeedLaborCost, <<Line("p1", 1, "SALE")>>),
     paymentStatus |-> paymentStatus(1, totalCost(SeedLaborCost, <<Line("p1", 1, "SALE")>>))]>>

StockInit ==
  /\ stock = SeedStock
  /\ adjustments = SeedAdjustments
  /\ sales = SeedSales
  /\ returns = <<>>
  /\ repairs = SeedRepairs
  /\ warranties = SeedWarranties
  /\ req = [r \in Reqs |-> IdleReq]
  /\ started = 0
  /\ principal = SeedPrincipal
  /\ check = NoCheck
  /\ account = SeedAccount
  /\ totals = NoTotals

\* ------------------------------------------------------------ adjustStock
AdjustTypesTried == {"ADDITION", "REDUCTION", "CORRECTION", "WARRANTY_REPLACE"}

AdjustStockStart(r, p, t, q) ==
  /\ Accepts(r)
  /\ started' = started + 1
  /\ req' = [req EXCEPT ![r] =
       IF t \notin ADJUSTMENT_TYPES THEN Fail(NewReq("adjustStock"), "InvalidType")
       ELSE IF q <= 0 THEN Fail(NewReq("adjustStock"), "InvalidQuantity")
       ELSE [NewReq("adjustStock") EXCEPT !.pc = "find", !.lines = <<Line(p, q, t)>>, !.i = 1]]
  /\ UNCHANGED <<stock, adjustments, sales, returns, repairs, warranties, auth>>

\* ------------------------------------------------------------- createSale
CreateSaleStart(r, items, c) ==
  /\ Accepts(r)
  /\ started' = started + 1
  /\ req' = [req EXCEPT ![r] =
       [NewReq("createSale") EXCEPT !.pc = "check", !.lines = items, !.i = 1, !.cust = c]]
  /\ UNCHANGED <<stock, adjustments, sales, returns, repairs, warranties, auth>>

\* createSale / createExchange, one turn of the validation loop over the items
\* to sell: Product.findById, Stock.findOne, compare; createExchange validates
\* the payment after the last one
CheckItem(r) ==
  /\ req[r].pc = "check"
  /\ LET rq == req[r]
         ln == CurLine(rq)
     IN req' = [req EXCEPT ![r] =
          IF Qty(ln.product) < ln.quantity THEN Fail(rq, "InsufficientStock")
          ELSE IF rq.i < Len(rq.lines) THEN [rq EXCEPT !.i = rq.i + 1]
          ELSE IF rq.op = "createSale" THEN [rq EXCEPT !.pc = "number", !.i = 0]
          ELSE IF ExchangeAmountDue(rq.lines) > 0 /\ rq.paid < ExchangeAmountDue(rq.lines)
               THEN Fail(rq, "InsufficientPayment")
          ELSE [rq EXCEPT !.pc = "rnumber", !.i = 0]]
  /\ UNCHANGED <<stock, adjustments, sales, returns, repairs, warranties, started, auth>>

\* const saleNumber = await Sale.generateSaleNumber()
SaleNumber(r) ==
  /\ req[r].pc = "number"
  /\ LET rq == req[r] IN
     req' = [req EXCEPT ![r] =
       IF rq.op = "seedSales"
       THEN [rq EXCEPT !.num = generateSaleNumber, !.pc = "find", !.i = 1]
       ELSE [rq EXCEPT !.num = generateSaleNumber, !.pc = "persist"]]
  /\ UNCHANGED <<stock, adjustments, sales, returns, repairs, warranties, started, auth>>

\* the items a handler stores on the Sale it creates
SoldLines(rq) == SelectSeq(rq.lines, LAMBDA ln : ln.type = "SALE")

\* await Sale.create({ saleNumber, items, ..., status: COMPLETED })
SaleCreate(r) ==
  /\ req[r].pc = "persist"
  /\ LET rq == req[r] IN
     IF SaleNumberFree(rq.num)
     THEN /\ sales' = Append(sales, [saleNumber |-> rq.num, items |-> SoldLines(rq),
                                     status |-> "COMPLETED", cust |-> rq.cust,
                                     deleted |-> FALSE])
          /\ req' = [req EXCEPT ![r] =
               CASE rq.op = "createSale" -> [rq EXCEPT !.made = Len(sales) + 1, !.i = 1, !.pc = "find"]
                 [] rq.op = "createExchange" -> [rq EXCEPT !.made = Len(sales) + 1, !.pc = "rpersist"]
                 [] rq.op = "seedSales" -> Ok(rq)]
     ELSE /\ req' = [req EXCEPT ![r] = Fail(rq, "DuplicateKey")]
          /\ UNCHANGED sales
  /\ UNCHANGED <<stock, adjustments, returns, repairs, warranties, started, auth>>

\* createSale, per unit sold of a product under warranty:
\* const warrantyNumber = await Warranty.generateWarrantyNumber()
WarrantyNumber(r) ==
  /\ req[r].pc = "wnumber"
  /\ req' = [req EXCEPT ![r].num = generateWarrantyNumber, ![r].pc = "wcreate"]
  /\ UNCHANGED <<stock, adjustments, sales, returns, repairs, warranties, started, auth>>

\* await Warranty.create({ warrantyNumber, sourceType: "SALE", sale, product, status: "ACTIVE" })
WarrantyCreate(r) ==
  /\ req[r].pc = "wcreate"
  /\ LET rq == req[r] IN
     IF WarrantyNumberFree(rq.num)
     THEN /\ warranties' = Append(warranties,
               [warrantyNumber |-> rq.num, sale |-> rq.made, product |-> CurLine(rq).product,
                status |-> "ACTIVE", ended |-> FALSE, claims |-> <<>>])
          /\ req' = [req EXCEPT ![r] =
               IF rq.u < CurLine(rq).quantity THEN [rq EXCEPT !.u = rq.u + 1, !.pc = "wnumber"]
               ELSE WarrantyLoop(rq, rq.i + 1)]
     ELSE /\ req' = [req EXCEPT ![r] = Fail(rq, "DuplicateKey")]
          /\ UNCHANGED warranties
  /\ UNCHANGED <<stock, adjustments, sales, returns, repairs, started, auth>>

\* --------------------------------------------------------------- voidSale
\* Sale.findById and the status check
VoidSaleStart(r, s) ==
  /\ Accepts(r)
  /\ started' = started + 1
  /\ req' = [req EXCEPT ![r] =
       IF sales[s].deleted THEN Fail(NewReq("voidSale"), "NotFound")
       ELSE IF sales[s].status = "VOIDED" THEN Fail(NewReq("voidSale"), "AlreadyVoided")
       ELSE [NewReq("voidSale") EXCEPT !.pc = "find", !.ref = s, !.i = 1,
                                       !.lines = LinesOf(sales[s].items, "RETURN")]]
  /\ UNCHANGED <<stock, adjustments, sales, returns, repairs, warranties, auth>>

\* sale.status = VOIDED; await sale.save()
VoidSaleFinish(r) ==
  /\ req[r].pc = "finish"
  /\ req[r].op = "voidSale"
  /\ LET rq == req[r] IN
     IF sales[rq.ref].deleted
     THEN /\ req' = [req EXCEPT ![r] = Fail(rq, "DocumentNotFound")]
          /\ UNCHANGED sales
     ELSE /\ sales' = [sales EXCEPT ![rq.ref].status = "VOIDED"]
          /\ req' = [req EXCEPT ![r] = Ok(rq)]
  /\ UNCHANGED <<stock, adjustments, returns, repairs, warranties, started, auth>>

\* ------------------------------------------- createReturn, createExchange
\* the returned lines: saleItem.product and returnQty, in request order
ReturnedLines(s, ritems) ==
  [k \in 1..Len(ritems) |-> Line(sales[s].items[ritems[k].item].product, ritems[k].quantity, "RETURN")]

\* returnQty > saleItem.quantity for some requested item
ReturnsTooMany(s, ritems) ==
  \E k \in 1..Len(ritems) : ritems[k].quantity > sales[s].items[ritems[k].item].quantity

\* Sale.findById, the status check and the loop over the items to return
CreateReturnStart(r, s, ritems) ==
  /\ Accepts(r)
  /\ started' = started + 1
  /\ req' = [req EXCEPT ![r] =
       IF sales[s].deleted THEN Fail(NewReq("createReturn"), "NotFound")
       ELSE IF sales[s].status = "VOIDED" THEN Fail(NewReq("createReturn"), "SaleVoided")
       ELSE IF ReturnsTooMany(s, ritems) THEN Fail(NewReq("createReturn"), "ReturnsTooMany")
       ELSE [NewReq("createReturn") EXCEPT !.pc = "rnumber", !.ref = s,
                                           !.lines = ReturnedLines(s, ritems)]]
  /\ UNCHANGED <<stock, adjustments, sales, returns, repairs, warranties, auth>>

CreateExchangeStart(r, s, ritems, nitems, amountPaid) ==
  /\ Accepts(r)
  /\ started' = started + 1
  /\ req' = [req EXCEPT ![r] =
       IF sales[s].deleted THEN Fail(NewReq("createExchange"), "NotFound")
       ELSE IF sales[s].status = "VOIDED" THEN Fail(NewReq("createExchange"), "SaleVoided")
       ELSE IF ReturnsTooMany(s, ritems) THEN Fail(NewReq("createExchange"), "ReturnsTooMany")
       ELSE [NewReq("createExchange") EXCEPT
               !.pc = "check", !.ref = s, !.paid = amountPaid, !.cust = sales[s].cust,
               !.lines = ReturnedLines(s, ritems) \o nitems, !.i = Len(ritems) + 1]]
  /\ UNCHANGED <<stock, adjustments, sales, returns, repairs, warranties, auth>>

\* const returnNumber = await Return.generateReturnNumber()
ReturnNumber(r) ==
  /\ req[r].pc = "rnumber"
  /\ req' = [req EXCEPT ![r].rnum = generateReturnNumber,
                        ![r].pc = IF req[r].op = "createExchange" THEN "number" ELSE "rpersist"]
  /\ UNCHANGED <<stock, adjustments, sales, returns, repairs, warranties, started, auth>>

\* await Return.create({ returnNumber, originalSale, returnType, items, exchangeSale, ... })
ReturnCreate(r) ==
  /\ req[r].pc = "rpersist"
  /\ LET rq == req[r] IN
     IF ReturnNumberFree(rq.rnum)
     THEN /\ returns' = Append(returns,
               [returnNumber |-> rq.rnum, originalSale |-> rq.ref,
                returnType |-> IF rq.op = "createExchange" THEN "EXCHANGE" ELSE "REFUND",
                items |-> SelectSeq(rq.lines, LAMBDA ln : ln.type = "RETURN"),
                exchangeSale |-> rq.made,
                exchangeAmountDue |-> IF rq.op = "createExchange"
                                      THEN Max(0, ExchangeAmountDue(rq.lines)) ELSE 0])
          /\ req' = [req EXCEPT ![r] = [rq EXCEPT !.i = 1, !.pc = "find"]]
     ELSE /\ req' = [req EXCEPT ![r] = Fail(rq, "DuplicateKey")]
          /\ UNCHANGED returns
  /\ UNCHANGED <<stock, adjustments, sales, repairs, warranties, started, auth>>

\* a return loop without the Warranty.updateMany
WarrantyVoidSkipped(r) ==
  /\ req[r].pc = "wvoid"
  /\ req' = [req EXCEPT ![r] = NextLine(req[r])]
  /\ UNCHANGED <<stock, adjustments, sales, returns, repairs, warranties, started, auth>>

\* await Warranty.updateMany({ sale, product, status: ACTIVE }, { status: VOID })
WarrantyVoidReturned(r) ==
  /\ req[r].pc = "wvoid"
  /\ LET rq == req[r] IN
     /\ warranties' = [k \in 1..Len(warranties) |->
          IF /\ warranties[k].sale = rq.ref
             /\ warranties[k].product = CurLine(rq).product
             /\ warranties[k].status = "ACTIVE"
          THEN [warranties[k] EXCEPT !.status = "VOID"]
          ELSE warranties[k]]
     /\ req' = [req EXCEPT ![r] = NextLine(rq)]
  /\ UNCHANGED <<stock, adjustments, sales, returns, repairs, started, auth>>

\* ------------------------------------------ completeRepair, cancelRepair
Users == {"admin", "tech"}

\* REPAIR_STATUS.<name>: a property lookup, undefined for a missing key;
\* saving undefined on the status path removes the field from the document
RepairStatus(name) == IF name \in REPAIR_STATUS THEN name ELSE "undefined"

\* repair.status after RepairJob.findById: a document stored without the
\* field is hydrated with the schema default, RECEIVED
LoadedStatus(j) == IF repairs[j].status = "undefined" THEN "RECEIVED" ELSE repairs[j].status

\* RepairJob.findById, the assignment check and the status check
CompleteRepairStart(r, j, user, parts) ==
  /\ Accepts(r)
  /\ started' = started + 1
  /\ req' = [req EXCEPT ![r] =
       IF repairs[j].assignedTo # user THEN Fail(NewReq("completeRepair"), "NotAssigned")
       ELSE IF LoadedStatus(j) \notin {"IN_PROGRESS", "RECEIVED"}
            THEN Fail(NewReq("completeRepair"), "BadStatus")
       ELSE PreSave([NewReq("completeRepair") EXCEPT
                       !.pc = IF parts = <<>> THEN "finish" ELSE "find", !.ref = j,
                       !.lines = parts, !.i = IF parts = <<>> THEN 0 ELSE 1],
                    j, NoLaborCost, parts, repairs[j].advancePayment + repairs[j].finalPayment)]
  /\ UNCHANGED <<stock, adjustments, sales, returns, repairs, warranties, auth>>

\* RepairJob.findById and the status check; the parts come from the stored job
CancelRepairStart(r, j) ==
  /\ Accepts(r)
  /\ started' = started + 1
  /\ req' = [req EXCEPT ![r] =
       IF LoadedStatus(j) = "COMPLETED" THEN Fail(NewReq("cancelRepair"), "BadStatus")
       ELSE PreSave([NewReq("cancelRepair") EXCEPT
                       !.pc = IF repairs[j].partsUsed = <<>> THEN "finish" ELSE "find", !.ref = j,
                       !.i = IF repairs[j].partsUsed = <<>> THEN 0 ELSE 1,
                       !.lines = LinesOf(repairs[j].partsUsed, "RETURN")],
                    j, repairs[j].laborCost, repairs[j].partsUsed,
                    repairs[j].advancePayment + repairs[j].finalPayment)]
  /\ UNCHANGED <<stock, adjustments, sales, returns, repairs, warranties, auth>>

\* repair.partsUsed = processedParts; repair.status = READY | CANCELLED; await repair.save()
RepairFinish(r) ==
  /\ req[r].pc = "finish"
  /\ req[r].op \in {"completeRepair", "cancelRepair"}
  /\ LET rq == req[r] IN
     /\ repairs' = [repairs EXCEPT ![rq.ref] =
          [(IF rq.op = "completeRepair"
            THEN [@ EXCEPT !.status = "READY", !.partsUsed = rq.lines, !.laborCost = NoLaborCost]
            ELSE [@ EXCEPT !.status = "CANCELLED"])
           EXCEPT !.totalCost = IF rq.cost = NotModified THEN @ ELSE rq.cost,
                  !.paymentStatus = IF rq.pstat = "" THEN @ ELSE rq.pstat]]
     /\ req' = [req EXCEPT ![r] = Ok(rq)]
  /\ UNCHANGED <<stock, adjustments, sales, returns, warranties, started, auth>>

\* -------------------------------------- the other repair job handlers
JobNumberFree(n) == \A k \in 1..Len(repairs) : repairs[k].jobNumber # n

generateJobNumber == NextNumber({repairs[k].jobNumber : k \in 1..Len(repairs)})

\* createRepair: the body is validated, the job is assigned to its creator
CreateRepairStart(r, user) ==
  /\ Accepts(r)
  /\ started' = started + 1
  /\ req' = [req EXCEPT ![r] = [NewReq("createRepair") EXCEPT !.pc = "jnumber", !.who = user]]
  /\ UNCHANGED <<stock, adjustments, sales, returns, repairs, warranties, auth>>

\* const jobNumber = await RepairJob.generateJobNumber()
JobNumber(r) ==
  /\ req[r].pc = "jnumber"
  /\ req' = [req EXCEPT ![r].num = generateJobNumber, ![r].pc = "jpersist"]
  /\ UNCHANGED <<stock, adjustments, sales, returns, repairs, warranties, started, auth>>

\* await RepairJob.create({ jobNumber, assignedTo, status: RECEIVED, ... })
RepairCreate(r) ==
  /\ req[r].pc = "jpersist"
  /\ LET rq == req[r] IN
     IF JobNumberFree(rq.num)
     THEN /\ repairs' = Append(repairs,
               [jobNumber |-> rq.num, status |-> RepairStatus("RECEIVED"), assignedTo |-> rq.who,
                partsUsed |-> <<>>, advancePayment |-> 0, finalPayment |-> 0,
                laborCost |-> 0, totalCost |-> totalCost(0, <<>>),
                paymentStatus |-> paymentStatus(0, totalCost(0, <<>>))])
          /\ req' = [req EXCEPT ![r] = Ok(rq)]
     ELSE /\ req' = [req EXCEPT ![r] = Fail(rq, "DuplicateKey")]
          /\ UNCHANGED repairs
  /\ UNCHANGED <<stock, adjustments, sales, returns, warranties, started, auth>>

\* assignTechnician: User.findById, RepairJob.findById, the status check;
\* repair.status = REPAIR_STATUS.ASSIGNED
AssignTechnicianStart(r, j, technician) ==
  /\ Accepts(r)
  /\ started' = started + 1
  /\ req' = [req EXCEPT ![r] =
       IF technician \notin Users THEN Fail(NewReq("assignTechnician"), "NotFound")
       ELSE IF LoadedStatus(j) \in {"COMPLETED", "CANCELLED"}
            THEN Fail(NewReq("assignTechnician"), "BadStatus")
       ELSE PreSave([NewReq("assignTechnician") EXCEPT !.pc = "rsave", !.ref = j, !.who = technician,
                                                       !.st = RepairStatus("ASSIGNED")],
                    j, repairs[j].laborCost, repairs[j].partsUsed,
                    repairs[j].advancePayment + repairs[j].finalPayment)]
  /\ UNCHANGED <<stock, adjustments, sales, returns, repairs, warranties, auth>>

\* startRepair: the assignment check, status must be RECEIVED
StartRepairStart(r, j, user) ==
  /\ Accepts(r)
  /\ started' = started + 1
  /\ req' = [req EXCEPT ![r] =
       IF repairs[j].assignedTo # user THEN Fail(NewReq("startRepair"), "NotAssigned")
       ELSE IF LoadedStatus(j) # "RECEIVED" THEN Fail(NewReq("startRepair"), "BadStatus")
       ELSE PreSave([NewReq("startRepair") EXCEPT !.pc = "rsave", !.ref = j,
                                                  !.st = RepairStatus("IN_PROGRESS")],
                    j, repairs[j].laborCost, repairs[j].partsUsed,
                    repairs[j].advancePayment + repairs[j].finalPayment)]
  /\ UNCHANGED <<stock, adjustments, sales, returns, repairs, warranties, auth>>

\* collectPayment: an amount is required, status must be READY
CollectPaymentStart(r, j, amount) ==
  /\ Accepts(r)
  /\ started' = started + 1
  /\ req' = [req EXCEPT ![r] =
       IF amount <= 0 THEN Fail(NewReq("collectPayment"), "AmountRequired")
       ELSE IF LoadedStatus(j) # "READY" THEN Fail(NewReq("collectPayment"), "BadStatus")
       ELSE PreSave([NewReq("collectPayment") EXCEPT !.pc = "rsave", !.ref = j, !.paid = amount,
                                                     !.st = RepairStatus("COMPLETED")],
                    j, repairs[j].laborCost, repairs[j].partsUsed, repairs[j].advancePayment + amount)]
  /\ UNCHANGED <<stock, adjustments, sales, returns, repairs, warranties, auth>>

\* updateAdvancePayment: refused on a COMPLETED or CANCELLED job; the status
\* is not written
UpdateAdvancePaymentStart(r, j, amount) ==
  /\ Accepts(r)
  /\ started' = started + 1
  /\ req' = [req EXCEPT ![r] =
       IF amount < 0 THEN Fail(NewReq("updateAdvancePayment"), "AmountRequired")
       ELSE IF LoadedStatus(j) \in {"COMPLETED", "CANCELLED"}
            THEN Fail(NewReq("updateAdvancePayment"), "BadStatus")
       ELSE PreSave([NewReq("updateAdvancePayment") EXCEPT !.pc = "rsave", !.ref = j, !.paid = amount],
                    j, repairs[j].laborCost, repairs[j].partsUsed, amount + repairs[j].finalPayment)]
  /\ UNCHANGED <<stock, adjustments, sales, returns, repairs, warranties, auth>>

\* await repair.save(): the paths the handler assigned are written
RepairSave(r) ==
  /\ req[r].pc = "rsave"
  /\ LET rq == req[r] IN
     /\ repairs' = [repairs EXCEPT ![rq.ref] =
          [@ EXCEPT !.status = IF rq.st = "" THEN @ ELSE rq.st,
                    !.assignedTo = IF rq.op = "assignTechnician" THEN rq.who ELSE @,
                    !.advancePayment = IF rq.op = "updateAdvancePayment" THEN rq.paid ELSE @,
                    !.finalPayment = IF rq.op = "collectPayment" THEN rq.paid ELSE @,
                    !.totalCost = IF rq.cost = NotModified THEN @ ELSE rq.cost,
                    !.paymentStatus = IF rq.pstat = "" THEN @ ELSE rq.pstat]]
     /\ req' = [req EXCEPT ![r] = Ok(rq)]
  /\ UNCHANGED <<stock, adjustments, sales, returns, warranties, started, auth>>

\* ------------------------------------------------------------ createClaim
ResolutionsTried == {"REPLACE", "none"}

\* RETURN_TYPES.<name>: a property lookup, undefined for a missing key
ReturnType(name) == IF name \in RETURN_TYPES THEN name ELSE "undefined"

\* returnSchema: returnType is required and one of RETURN_TYPES, originalSale
\* is required
ReturnValid(doc) == doc.returnType \in RETURN_TYPES /\ doc.originalSale # 0

\* warranty.checkValidity(): a voided warranty, or one past its end date
checkValidity(w) ==
  IF warranties[w].status = "VOID" THEN "WarrantyVoided"
  ELSE IF warranties[w].ended THEN "WarrantyExpired"
  ELSE "valid"

\* the pre-save hook: an ACTIVE document past its end date is saved as EXPIRED
PreSaveStatus(st, ended) == IF st = "ACTIVE" /\ ended THEN "EXPIRED" ELSE st

\* Warranty.findById and checkValidity (REPAIR is taken without a repairJobId)
CreateClaimStart(r, w, resolution, p) ==
  /\ Accepts(r)
  /\ resolution # "REPLACE" => p = warranties[w].product
  /\ started' = started + 1
  /\ req' = [req EXCEPT ![r] =
       IF checkValidity(w) # "valid" THEN Fail(NewReq("createClaim"), checkValidity(w))
       ELSE [NewReq("createClaim") EXCEPT
               !.pc = "cnumber", !.ref = w, !.st = warranties[w].status,
               !.resolution = resolution,
               !.lines = IF resolution = "REPLACE"
                         THEN <<Line(p, 1, AdjustmentType("WARRANTY_REPLACE"))>> ELSE <<>>]]
  /\ UNCHANGED <<stock, adjustments, sales, returns, repairs, warranties, auth>>

\* const claimNumber = await Warranty.generateClaimNumber()
ClaimNumber(r) ==
  /\ req[r].pc = "cnumber"
  /\ req' = [req EXCEPT ![r].num = generateClaimNumber,
                        ![r].i = IF req[r].lines = <<>> THEN 0 ELSE 1,
                        ![r].pc = CASE req[r].resolution = "REPLACE" -> "find"
                                    [] req[r].resolution = "REPAIR" -> "cjnumber"
                                    [] req[r].resolution = "REFUND" -> "crnumber"
                                    [] OTHER -> "finish"]
  /\ UNCHANGED <<stock, adjustments, sales, returns, repairs, warranties, started, auth>>

\* REPAIR: const jobNumber = await RepairJob.generateJobNumber()
ClaimJobNumber(r) ==
  /\ req[r].pc = "cjnumber"
  /\ req' = [req EXCEPT ![r].rnum = generateJobNumber, ![r].pc = "cjpersist"]
  /\ UNCHANGED <<stock, adjustments, sales, returns, repairs, warranties, started, auth>>

\* REPAIR: await RepairJob.create({ jobNumber, status: RECEIVED, ... })
ClaimRepairCreate(r) ==
  /\ req[r].pc = "cjpersist"
  /\ LET rq == req[r] IN
     IF JobNumberFree(rq.rnum)
     THEN /\ repairs' = Append(repairs,
               [jobNumber |-> rq.rnum, status |-> RepairStatus("RECEIVED"), assignedTo |-> "",
                partsUsed |-> <<>>, advancePayment |-> 0, finalPayment |-> 0,
                laborCost |-> 0, totalCost |-> totalCost(0, <<>>),
                paymentStatus |-> paymentStatus(0, totalCost(0, <<>>))])
          /\ req' = [req EXCEPT ![r].made = Len(repairs) + 1, ![r].pc = "finish"]
     ELSE /\ req' = [req EXCEPT ![r] = Fail(rq, "DuplicateKey")]
          /\ UNCHANGED repairs
  /\ UNCHANGED <<stock, adjustments, sales, returns, warranties, started, auth>>

\* REFUND: const returnNumber = await Return.generateReturnNumber()
ClaimReturnNumber(r) ==
  /\ req[r].pc = "crnumber"
  /\ req' = [req EXCEPT ![r].rnum = generateReturnNumber, ![r].pc = "crpersist"]
  /\ UNCHANGED <<stock, adjustments, sales, returns, repairs, warranties, started, auth>>

\* REFUND: await Return.create({ returnNumber, originalSale: warranty.sale || null,
\* returnType: RETURN_TYPES.WARRANTY_REFUND, items: [one unit], ... })
ClaimReturnCreate(r) ==
  /\ req[r].pc = "crpersist"
  /\ LET rq == req[r]
         doc == [returnNumber |-> rq.rnum, originalSale |-> warranties[rq.ref].sale,
                 returnType |-> ReturnType("WARRANTY_REFUND"),
                 items |-> <<Line(warranties[rq.ref].product, 1, "RETURN")>>,
                 exchangeSale |-> 0, exchangeAmountDue |-> 0]
     IN IF ~ReturnValid(doc)
        THEN /\ req' = [req EXCEPT ![r] = Fail(rq, "ReturnValidationError")]
             /\ UNCHANGED returns
        ELSE IF ~ReturnNumberFree(rq.rnum)
        THEN /\ req' = [req EXCEPT ![r] = Fail(rq, "DuplicateKey")]
             /\ UNCHANGED returns
        ELSE /\ returns' = Append(returns, doc)
             /\ req' = [req EXCEPT ![r].made = Len(returns) + 1, ![r].st = "VOID",
                                   ![r].pc = "finish"]
  /\ UNCHANGED <<stock, adjustments, sales, repairs, warranties, started, auth>>

\* warranty.claims.push(claim); ACTIVE becomes CLAIMED; await warranty.save():
\* the claim is pushed and the status is written when the handler changed it
ClaimFinish(r) ==
  /\ req[r].pc = "finish"
  /\ req[r].op = "createClaim"
  /\ LET rq == req[r]
         claim == [claimNumber |-> rq.num,
                   resolution |-> rq.resolution,
                   repairJob |-> IF rq.resolution = "REPAIR" THEN rq.made ELSE 0,
                   replacementProduct |-> IF rq.resolution = "REPLACE" THEN rq.lines[1].product
                                          ELSE "none",
                   returnRecord |-> IF rq.resolution = "REFUND" THEN rq.made ELSE 0]
     IN
     /\ warranties' = [warranties EXCEPT ![rq.ref] =
          [@ EXCEPT !.claims = Append(@, claim),
                    !.status = IF rq.st = "ACTIVE" THEN "CLAIMED"
                               ELSE IF rq.resolution = "REFUND" THEN "VOID" ELSE @]]
     /\ req' = [req EXCEPT ![r] = Ok(rq)]
  /\ UNCHANGED <<stock, adjustments, sales, returns, repairs, started, auth>>

\* ------------------------------------------------------------ updateClaim
\* Warranty.findById and warranty.claims.id(claimId)
UpdateClaimStart(r, w, c, resolution, repairJobId) ==
  /\ Accepts(r)
  /\ started' = started + 1
  /\ req' = [req EXCEPT ![r] =
       IF c \notin 1..Len(warranties[w].claims) THEN Fail(NewReq("updateClaim"), "NotFound")
       ELSE [NewReq("updateClaim") EXCEPT
               !.pc = "usave", !.ref = w, !.i = c, !.u = Len(warranties[w].claims),
               !.st = warranties[w].status, !.resolution = resolution, !.made = repairJobId]]
  /\ UNCHANGED <<stock, adjustments, sales, returns, repairs, warranties, auth>>

\* await warranty.save(): the claim's changed fields are written at its
\* position under the version that was loaded, which every push to claims
\* has advanced; the pre-save hook runs on the loaded status
UpdateClaimSave(r) ==
  /\ req[r].pc = "usave"
  /\ LET rq == req[r] IN
     IF Len(warranties[rq.ref].claims) # rq.u
     THEN /\ req' = [req EXCEPT ![r] = Fail(rq, "VersionError")]
          /\ UNCHANGED warranties
     ELSE /\ warranties' = [warranties EXCEPT ![rq.ref] =
               [@ EXCEPT !.claims[rq.i].resolution = IF rq.resolution = "none" THEN @ ELSE rq.resolution,
                         !.claims[rq.i].repairJob = IF rq.made = 0 THEN @ ELSE rq.made,
                         !.status = IF PreSaveStatus(rq.st, @.ended) # rq.st
                                    THEN PreSaveStatus(rq.st, @.ended) ELSE @]]
          /\ req' = [req EXCEPT ![r] = Ok(rq)]
  /\ UNCHANGED <<stock, adjustments, sales, returns, repairs, started, auth>>

\* ----------------------------------------------------------- voidWarranty
\* Warranty.findById; an already voided warranty is refused
VoidWarrantyStart(r, w) ==
  /\ Accepts(r)
  /\ started' = started + 1
  /\ req' = [req EXCEPT ![r] =
       IF warranties[w].status = "VOID" THEN Fail(NewReq("voidWarranty"), "AlreadyVoided")
       ELSE [NewReq("voidWarranty") EXCEPT !.pc = "vsave", !.ref = w]]
  /\ UNCHANGED <<stock, adjustments, sales, returns, repairs, warranties, auth>>

\* warranty.status = VOID; await warranty.save()
VoidWarrantySave(r) ==
  /\ req[r].pc = "vsave"
  /\ warranties' = [warranties EXCEPT ![req[r].ref].status = "VOID"]
  /\ req' = [req EXCEPT ![r] = Ok(req[r])]
  /\ UNCHANGED <<stock, adjustments, sales, returns, repairs, started, auth>>

\* ---------------------------------------------------- checkWarrantyStatus
\* Warranty.findById and warranty.checkValidity(), answered without a save
CheckWarrantyStatus(r, w) ==
  /\ Accepts(r)
  /\ started' = started + 1
  /\ req' = [req EXCEPT ![r] =
       Respond([NewReq("checkWarrantyStatus") EXCEPT !.ref = w], checkValidity(w))]
  /\ UNCHANGED <<stock, adjustments, sales, returns, repairs, warranties, auth>>

\* ------------------------------------------------------- the expiry sweep
\* the clock passes the end date of a warranty
EndDatePasses(w) ==
  /\ ~warranties[w].ended
  /\ warranties' = [warranties EXCEPT ![w].ended = TRUE]
  /\ UNCHANGED <<stock, adjustments, sales, returns, repairs, req, started, auth>>

\* Warranty.updateExpiredWarranties(): one updateMany of the ACTIVE
\* warranties past their end date
updateExpiredWarranties ==
  /\ \E w \in 1..Len(warranties) : warranties[w].status = "ACTIVE" /\ warranties[w].ended
  /\ warranties' = [w \in 1..Len(warranties) |->
       IF warranties[w].status = "ACTIVE" /\ warranties[w].ended
       THEN [warranties[w] EXCEPT !.status = "EXPIRED"] ELSE warranties[w]]
  /\ UNCHANGED <<stock, adjustments, sales, returns, repairs, req, started, auth>>

\* --------------------------------------------------------- the sales seed
SeedScenarios == {<<Line(p, q, "SALE")>> : p \in SeededProducts, q \in 1..MaxItemQty}

\* a run of the sales seed with one scenario: await Sale.deleteMany({})
SeedSalesStart(r, items) ==
  /\ Accepts(r)
  /\ started' = started + 1
  /\ sales' = [k \in 1..Len(sales) |-> [sales[k] EXCEPT !.deleted = TRUE]]
  /\ req' = [req EXCEPT ![r] = [NewReq("seedSales") EXCEPT !.pc = "number", !.lines = items]]
  /\ UNCHANGED <<stock, adjustments, returns, repairs, warranties, auth>>

\* ------------------------------------------------ the stock steps of a line
\* Stock.findOne: the first await of getOrCreate, or the handler's own findOne
StockFind(r) ==
  /\ req[r].pc = "find"
  /\ LET rq == req[r]
         p == CurLine(rq).product
     IN req' = [req EXCEPT ![r] =
          IF stock[p].exists THEN AfterLoad(rq, stock[p].quantity)
          ELSE IF UsesGetOrCreate(rq.op) THEN [rq EXCEPT !.pc = "create"]
          ELSE AfterMissing(rq)]
  /\ UNCHANGED <<stock, adjustments, sales, returns, repairs, warranties, started, auth>>

\* Stock.create({ product, quantity: 0 }): the second await of getOrCreate
StockCreate(r) ==
  /\ req[r].pc = "create"
  /\ LET rq == req[r]
         p == CurLine(rq).product
     IN IF stock[p].exists
        THEN /\ req' = [req EXCEPT ![r] = Fail(rq, "DuplicateKey")]
             /\ UNCHANGED stock
        ELSE /\ stock' = [stock EXCEPT ![p] = [exists |-> TRUE, quantity |-> 0]]
             /\ req' = [req EXCEPT ![r] = AfterLoad(rq, 0)]
  /\ UNCHANGED <<adjustments, sales, returns, repairs, warranties, started, auth>>

\* stock.quantity = newQuantity; await stock.save()
StockSave(r) ==
  /\ req[r].pc = "save"
  /\ LET rq == req[r]
         p == CurLine(rq).product
     IN IF StockQuantityValid(rq.newq)
        THEN /\ stock' = [stock EXCEPT ![p].quantity = rq.newq]
             /\ req' = [req EXCEPT ![r].pc = "adjust", ![r].nw = rq.nw + 1]
        ELSE /\ req' = [req EXCEPT ![r] = Fail(rq, "StockValidationError")]
             /\ UNCHANGED stock
  /\ UNCHANGED <<adjustments, sales, returns, repairs, warranties, started, auth>>

\* the document an adjustment names in `reference`: the sale, the return, the
\* repair job or the warranty the handler works on
Reference(rq) ==
  CASE rq.op = "createSale" -> rq.made
    [] rq.op = "seedSales" -> rq.num
    [] rq.op = "createReturn" -> rq.rnum
    [] rq.op = "createExchange" -> IF CurLine(rq).type = "RETURN" THEN rq.rnum ELSE rq.made
    [] rq.op = "adjustStock" -> 0
    [] OTHER -> rq.ref

\* await StockAdjustment.create({ product, type, quantity, previousQuantity,
\* newQuantity, reason, reference }); reason is kept as the handler's name
AdjustmentCreate(r) ==
  /\ req[r].pc = "adjust"
  /\ LET rq == req[r]
         ln == CurLine(rq)
     IN IF AdjustmentValid(ln.type, ln.quantity)
        THEN /\ adjustments' = Append(adjustments,
                  [product |-> ln.product, type |-> ln.type, quantity |-> ln.quantity,
                   previousQuantity |-> rq.prev, newQuantity |-> rq.newq,
                   reason |-> rq.op, reference |-> Reference(rq)])
             /\ req' = [req EXCEPT ![r] = AfterAdjust([rq EXCEPT !.na = rq.na + 1])]
        ELSE /\ req' = [req EXCEPT ![r] = Fail(rq, "AdjustmentValidationError")]
             /\ UNCHANGED adjustments
  /\ UNCHANGED <<stock, sales, returns, repairs, warranties, started, auth>>

\* ------------------------------------------------------------------ Next
PaymentsTried == {0, MaxItemQty * sellingPrice("p1")}

StockNext ==
  \/ \E r \in Reqs, p \in Products, t \in AdjustTypesTried, q \in 0..MaxItemQty :
       AdjustStockStart(r, p, t, q)
  \/ \E r \in Reqs, items \in ItemLists("SALE", MaxLines), c \in BOOLEAN : CreateSaleStart(r, items, c)
  \/ \E r \in Reqs : CheckItem(r)
  \/ \E r \in Reqs : SaleNumber(r)
  \/ \E r \in Reqs : SaleCreate(r)
  \/ \E r \in Reqs : WarrantyNumber(r)
  \/ \E r \in Reqs : WarrantyCreate(r)
  \/ \E r \in Reqs, s \in 1..Len(sales) : VoidSaleStart(r, s)
  \/ \E r \in Reqs : VoidSaleFinish(r)
  \/ \E r \in Reqs, s \in 1..Len(sales) :
       \E ritems \in ReturnLists(Len(sales[s].items), MaxLines) : CreateReturnStart(r, s, ritems)
  \/ \E r \in Reqs, s \in 1..Len(sales) :
       \E ritems \in ReturnLists(Len(sales[s].items), MaxExchangeLines),
          nitems \in ItemLists("SALE", MaxExchangeLines), a \in PaymentsTried :
         CreateExchangeStart(r, s, ritems, nitems, a)
  \/ \E r \in Reqs : ReturnNumber(r)
  \/ \E r \in Reqs : ReturnCreate(r)
  \/ \E r \in Reqs : WarrantyVoidReturned(r)
  \/ \E r \in Reqs, j \in 1..Len(repairs), user \in Users,
        parts \in ItemLists("SALE", MaxLines) \cup {<<>>} : CompleteRepairStart(r, j, user, parts)
  \/ \E r \in Reqs, j \in 1..Len(repairs) : CancelRepairStart(r, j)
  \/ \E r \in Reqs : RepairFinish(r)
  \/ \E r \in Reqs, w \in 1..Len(warranties),
        resolution \in ResolutionsTried, p \in Products : CreateClaimStart(r, w, resolution, p)
  \/ \E r \in Reqs : ClaimNumber(r)
  \/ \E r \in Reqs : ClaimFinish(r)
  \/ \E r \in Reqs, items \in SeedScenarios : SeedSalesStart(r, items)
  \/ \E r \in Reqs : StockFind(r)
  \/ \E r \in Reqs : StockCreate(r)
  \/ \E r \in Reqs : StockSave(r)
  \/ \E r \in Reqs : AdjustmentCreate(r)

StockSpec == StockInit /\ [][StockNext]_vars

\* ------------------------------------------------- the resolver at work
ResolverInit ==
  /\ principal \in UserDocuments
  /\ check = NoCheck
  /\ account = SeedAccount
  /\ totals = NoTotals
  /\ stock = SeedStock
  /\ adjustments = SeedAdjustments
  /\ sales = SeedSales
  /\ returns = <<>>
  /\ repairs = SeedRepairs
  /\ warranties = SeedWarranties
  /\ req = [r \in Reqs |-> IdleReq]
  /\ started = 0

\* a route guarded by authorize(required, { requireAll })
Authorize(required, requireAll) ==
  /\ check' = [fn |-> "authorize", required |-> required, requireAll |-> requireAll,
               granted |-> authorize(principal, required, requireAll), effective |-> {}]
  /\ UNCHANGED <<principal, account, totals, ledger>>

\* user.hasPermission(code)
HasPermission(c) ==
  /\ check' = [fn |-> "hasPermission", required |-> <<c>>, requireAll |-> FALSE,
               granted |-> hasPermission(principal, c), effective |-> {}]
  /\ UNCHANGED <<principal, account, totals, ledger>>

\* getUserPermissions: user.getEffectivePermissions()
GetUserPermissions ==
  /\ check' = [fn |-> "getEffectivePermissions", required |-> <<>>, requireAll |-> FALSE,
               granted |-> FALSE, effective |-> getEffectivePermissions(principal)]
  /\ UNCHANGED <<principal, account, totals, ledger>>

\* assignRoles: every id must name a role, the schema wants at least one
AssignRoles(roles) ==
  /\ principal' = IF roles \subseteq Roles /\ roles # {}
                  THEN [principal EXCEPT !.roles = roles] ELSE principal
  /\ check' = NoCheck
  /\ UNCHANGED <<account, totals, ledger>>

\* assignDirectPermissions: Permission.find({ _id: { $in: permIds } }) must
\* return as many documents as the request has entries
AssignDirectPermissions(perms) ==
  /\ principal' =
       IF Cardinality({perms[k].permission : k \in 1..Len(perms)} \cap Codes) = Len(perms)
       THEN [principal EXCEPT !.directPermissions = perms] ELSE principal
  /\ check' = NoCheck
  /\ UNCHANGED <<account, totals, ledger>>

ResolverNext ==
  \/ \E required \in SeqsUpTo(Codes, MaxRequired), requireAll \in BOOLEAN :
       Authorize(required, requireAll)
  \/ \E c \in Codes : HasPermission(c)
  \/ GetUserPermissions
  \/ \E roles \in SUBSET Roles : AssignRoles(roles)
  \/ \E perms \in SeqsUpTo(Overrides, MaxOverrides) : AssignDirectPermissions(perms)

ResolverSpec == ResolverInit /\ [][ResolverNext]_vars

\* ------------------------------------------- the repair workflow at work
AmountsTried == {-1, 0, 1}

RepairNext ==
  \/ \E r \in Reqs, user \in Users : CreateRepairStart(r, user)
  \/ \E r \in Reqs : JobNumber(r)
  \/ \E r \in Reqs : RepairCreate(r)
  \/ \E r \in Reqs, j \in 1..Len(repairs), technician \in Users \cup {"nobody"} :
       AssignTechnicianStart(r, j, technician)
  \/ \E r \in Reqs, j \in 1..Len(repairs), user \in Users : StartRepairStart(r, j, user)
  \/ \E r \in Reqs, j \in 1..Len(repairs), user \in Users,
        parts \in ItemLists("SALE", MaxLines) \cup {<<>>} : CompleteRepairStart(r, j, user, parts)
  \/ \E r \in Reqs, j \in 1..Len(repairs), amount \in AmountsTried : CollectPaymentStart(r, j, amount)
  \/ \E r \in Reqs, j \in 1..Len(repairs), amount \in AmountsTried :
       UpdateAdvancePaymentStart(r, j, amount)
  \/ \E r \in Reqs, j \in 1..Len(repairs) : CancelRepairStart(r, j)
  \/ \E r \in Reqs : RepairSave(r)
  \/ \E r \in Reqs : RepairFinish(r)
  \/ \E r \in Reqs : StockFind(r)
  \/ \E r \in Reqs : StockSave(r)
  \/ \E r \in Reqs : AdjustmentCreate(r)

RepairSpec == StockInit /\ [][RepairNext]_vars

\* ----------------------------------------- the warranty handlers at work
\* the seeded database after one createSale of a single p1 to a customer:
\* sale 2, its stock deduction and its warranty
SoldSale ==
  [saleNumber |-> 2, items |-> <<Line("p1", 1, "SALE")>>, status |-> "COMPLETED", cust |-> TRUE,
   deleted |-> FALSE]

SoldAdjustment ==
  [product |-> "p1", type |-> "SALE", quantity |-> 1,
   previousQuantity |-> SeedStock["p1"].quantity,
   newQuantity |-> SaleNewQuantity(SeedStock["p1"].quantity, 1),
   reason |-> "createSale", reference |-> 2]

SoldWarranty ==
  [warrantyNumber |-> 2, sale |-> 2, product |-> "p1", status |-> "ACTIVE", ended |-> FALSE,
   claims |-> <<>>]

WarrantyInit ==
  /\ stock = [SeedStock EXCEPT !["p1"].quantity = SoldAdjustment.newQuantity]
  /\ adjustments = Append(SeedAdjustments, SoldAdjustment)
  /\ sales = Append(SeedSales, SoldSale)
  /\ returns = <<>>
  /\ repairs = SeedRepairs
  /\ warranties = Append(SeedWarranties, SoldWarranty)
  /\ req = [r \in Reqs |-> IdleReq]
  /\ started = 0
  /\ principal = SeedPrincipal
  /\ check = NoCheck
  /\ account = SeedAccount
  /\ totals = NoTotals

WarrantyNext ==
  \/ \E r \in Reqs, w \in 1..Len(warranties),
        resolution \in CLAIM_RESOLUTIONS \cup {"none"}, p \in Products :
       CreateClaimStart(r, w, resolution, p)
  \/ \E r \in Reqs : ClaimNumber(r)
  \/ \E r \in Reqs : ClaimJobNumber(r)
  \/ \E r \in Reqs : ClaimRepairCreate(r)
  \/ \E r \in Reqs : ClaimReturnNumber(r)
  \/ \E r \in Reqs : ClaimReturnCreate(r)
  \/ \E r \in Reqs : ClaimFinish(r)
  \/ \E r \in Reqs, w \in 1..Len(warranties) :
       \E c \in 0..Len(warranties[w].claims), resolution \in CLAIM_RESOLUTIONS \cup {"none"},
          repairJobId \in 0..Len(repairs) :
         UpdateClaimStart(r, w, c, resolution, repairJobId)
  \/ \E r \in Reqs : UpdateClaimSave(r)
  \/ \E r \in Reqs, w \in 1..Len(warranties) : VoidWarrantyStart(r, w)
  \/ \E r \in Reqs : VoidWarrantySave(r)
  \/ \E r \in Reqs, w \in 1..Len(warranties) : CheckWarrantyStatus(r, w)
  \/ \E w \in 1..Len(warranties) : EndDatePasses(w)
  \/ updateExpiredWarranties
  \/ \E r \in Reqs, s \in 1..Len(sales) :
       \E ritems \in ReturnLists(Len(sales[s].items), MaxLines) : CreateReturnStart(r, s, ritems)
  \/ \E r \in Reqs : ReturnNumber(r)
  \/ \E r \in Reqs : ReturnCreate(r)
  \/ \E r \in Reqs : WarrantyVoidReturned(r)
  \/ \E r \in Reqs : StockFind(r)
  \/ \E r \in Reqs : StockCreate(r)
  \/ \E r \in Reqs : StockSave(r)
  \/ \E r \in Reqs : AdjustmentCreate(r)

WarrantySpec == WarrantyInit /\ [][WarrantyNext]_vars

\* ------------------------------------------- the protected repair routes
\* router.use(authenticate); router.get(path, authorize(...args), handler)
RepairRoutes ==
  {[path |-> "GET /repairs/my-jobs", args |-> <<"VIEW_OWN_REPAIRS">>],
   [path |-> "GET /repairs/number/:jobNumber", args |-> <<"VIEW_REPAIRS", "VIEW_OWN_REPAIRS">>],
   [path |-> "GET /repairs", args |-> <<"VIEW_REPAIRS">>],
   [path |-> "GET /repairs/:id", args |-> <<"VIEW_REPAIRS", "VIEW_OWN_REPAIRS">>]}

RoutePaths == {route.path : route \in RepairRoutes}
RouteArgs(path) == (CHOOSE route \in RepairRoutes : route.path = path).args

\* authorize(permissionCode, options = {}): the first argument, a string on
\* these routes, becomes [permissionCode]
requiredPermissions(args) == <<args[1]>>

\* const { requireAll = false } = options: the second argument of these
\* routes is absent or a string, neither has a requireAll property
requireAll(args) == FALSE

\* the Authorization header of a request: absent, a Bearer token jwt.verify
\* rejects, or a Bearer token of the principal
Tokens == {"none", "invalid", "valid"}

\* the User document is missing or deactivated
Barred == ~account.exists \/ ~account.isActive

\* authenticate up to its first await: the header check and jwt.verify
RouteRequest(r, path, token) ==
  /\ Accepts(r)
  /\ started' = started + 1
  /\ LET rq == [NewReq(path) EXCEPT !.token = token, !.barred = Barred] IN
     req' = [req EXCEPT ![r] =
       IF token # "valid" THEN Fail(rq, "401") ELSE [rq EXCEPT !.pc = "authn"]]
  /\ UNCHANGED <<stock, adjustments, sales, returns, repairs, warranties, auth>>

\* an authenticate that lets every token holder through
AuthenticateAnyUser(r) ==
  /\ req[r].pc = "authn"
  /\ req' = [req EXCEPT ![r].pc = "authz"]
  /\ UNCHANGED <<stock, adjustments, sales, returns, repairs, warranties, started, auth>>

\* authenticate: await User.findById(decoded.userId), the two checks, next()
Authenticate(r) ==
  /\ req[r].pc = "authn"
  /\ req' = [req EXCEPT ![r] =
       IF ~account.exists THEN Fail(req[r], "401")
       ELSE IF ~account.isActive THEN Fail(req[r], "401")
       ELSE [req[r] EXCEPT !.pc = "authz"]]
  /\ UNCHANGED <<stock, adjustments, sales, returns, repairs, warranties, started, auth>>

\* the route's authorize: await User.findById(req.userId), the permission
\* check, then next() enters the handler
AuthorizeRoute(r) ==
  /\ req[r].pc = "authz"
  /\ req' = [req EXCEPT ![r] =
       IF ~account.exists THEN Fail(req[r], "401")
       ELSE IF authorize(principal, requiredPermissions(RouteArgs(req[r].op)),
                         requireAll(RouteArgs(req[r].op)))
            THEN Ok(req[r])
       ELSE Fail(req[r], "403")]
  /\ UNCHANGED <<stock, adjustments, sales, returns, repairs, warranties, started, auth>>

\* deleteUser: User.findById, a super admin is refused
DeleteUserStart(r) ==
  /\ Accepts(r)
  /\ started' = started + 1
  /\ req' = [req EXCEPT ![r] =
       IF ~account.exists THEN Fail(NewReq("deleteUser"), "404")
       ELSE IF principal.isSuperAdmin THEN Fail(NewReq("deleteUser"), "403")
       ELSE [NewReq("deleteUser") EXCEPT !.pc = "usersave", !.st = "inactive"]]
  /\ UNCHANGED <<stock, adjustments, sales, returns, repairs, warranties, auth>>

\* updateUser with isActive in the body: User.findById
UpdateUserStart(r, isActive) ==
  /\ Accepts(r)
  /\ started' = started + 1
  /\ req' = [req EXCEPT ![r] =
       IF ~account.exists THEN Fail(NewReq("updateUser"), "404")
       ELSE [NewReq("updateUser") EXCEPT !.pc = "usersave",
                                         !.st = IF isActive THEN "active" ELSE "inactive"]]
  /\ UNCHANGED <<stock, adjustments, sales, returns, repairs, warranties, auth>>

\* user.isActive = ...; await user.save(). History: a reactivation ends the
\* bar on the requests that arrived while the user was deactivated
UserSave(r) ==
  /\ req[r].pc = "usersave"
  /\ IF ~account.exists
     THEN /\ req' = [req EXCEPT ![r] = Fail(req[r], "DocumentNotFound")]
          /\ UNCHANGED account
     ELSE /\ account' = [account EXCEPT !.isActive = (req[r].st = "active")]
          /\ req' = [o \in Reqs |->
               IF o = r THEN Ok(req[r])
               ELSE IF req[r].st = "active" THEN [req[o] EXCEPT !.barred = FALSE]
               ELSE req[o]]
  /\ UNCHANGED <<stock, adjustments, sales, returns, repairs, warranties, started, principal,
                 check, totals>>

\* User.deleteMany(...): the document is removed from the collection
RemoveUser ==
  /\ account.exists
  /\ account' = [account EXCEPT !.exists = FALSE]
  /\ UNCHANGED <<ledger, principal, check, totals>>

\* one role each, with and without isSuperAdmin, no overrides
GatePrincipals ==
  {[roles |-> {role}, directPermissions |-> <<>>, isSuperAdmin |-> b] :
     role \in Roles, b \in BOOLEAN}

GateInit ==
  /\ principal \in GatePrincipals
  /\ check = NoCheck
  /\ account = SeedAccount
  /\ totals = NoTotals
  /\ stock = SeedStock
  /\ adjustments = SeedAdjustments
  /\ sales = SeedSales
  /\ returns = <<>>
  /\ repairs = SeedRepairs
  /\ warranties = SeedWarranties
  /\ req = [r \in Reqs |-> IdleReq]
  /\ started = 0

GateNext ==
  \/ \E r \in Reqs, path \in RoutePaths, token \in Tokens : RouteRequest(r, path, token)
  \/ \E r \in Reqs : Authenticate(r)
  \/ \E r \in Reqs : AuthorizeRoute(r)
  \/ \E r \in Reqs : DeleteUserStart(r)
  \/ \E r \in Reqs, isActive \in BOOLEAN : UpdateUserStart(r, isActive)
  \/ \E r \in Reqs : UserSave(r)
  \/ RemoveUser

GateSpec == GateInit /\ [][GateNext]_vars

\* ------------------------------------------------ the totals of a sale
\* amounts are whole numbers of 1/10000 of the currency unit, so that a
\* percentage of a price in cents is exact; a price in cents is 100 of them
\* Math.round(x * 100) / 100: to the nearest cent, a half towards +Infinity
round2(x) == ((x + 50) \div 100) * 100

PricesTried == {12, 100}
TaxRatesTried == {0, 5}
DiscountTypesTried == {"none", "PERCENTAGE", "FIXED"}
DiscountValuesTried == {0, 3}

PricedItems == [unitPrice : PricesTried, quantity : 1..MaxItemQty, taxRate : TaxRatesTried]

\* createSale's loop: itemSubtotal and taxAmount of one item (no item discount)
itemSubtotal(item) == item.unitPrice * 100 * item.quantity
taxAmount(item) == (itemSubtotal(item) * item.taxRate) \div 100

\* subtotal += itemSubtotal; taxTotal += taxAmount
RECURSIVE Subtotal(_)
Subtotal(items) ==
  IF items = <<>> THEN 0 ELSE itemSubtotal(Head(items)) + Subtotal(Tail(items))

RECURSIVE TaxTotal(_)
TaxTotal(items) ==
  IF items = <<>> THEN 0 ELSE taxAmount(Head(items)) + TaxTotal(Tail(items))

\* discountTotal: a percentage of the subtotal, or the fixed value (whole
\* currency units)
discountTotal(subtotal, discountType, discountValue) ==
  IF discountType # "none" /\ discountValue > 0
  THEN IF discountType = "PERCENTAGE" THEN (subtotal * discountValue) \div 100
       ELSE discountValue * 10000
  ELSE 0

\* the totals Sale.create is given: grandTotal is rounded from the exact
\* amounts, the three others are each rounded on their own
StoredTotals(items, discountType, discountValue) ==
  LET subtotal == Subtotal(items)
      taxTotal == TaxTotal(items)
      discount == discountTotal(subtotal, discountType, discountValue)
  IN [subtotal |-> round2(subtotal),
      discountTotal |-> round2(discount),
      taxTotal |-> round2(taxTotal),
      grandTotal |-> round2(subtotal - discount + taxTotal)]

TotalsInit ==
  /\ totals \in [items : SeqsUpTo(PricedItems, MaxLines) \ {<<>>},
                  discountType : DiscountTypesTried, discountValue : DiscountValuesTried,
                  priced : {FALSE}, stored : {ZeroTotals}]
  /\ principal = SeedPrincipal
  /\ check = NoCheck
  /\ account = SeedAccount
  /\ stock = SeedStock
  /\ adjustments = SeedAdjustments
  /\ sales = SeedSales
  /\ returns = <<>>
  /\ repairs = SeedRepairs
  /\ warranties = SeedWarranties
  /\ req = [r \in Reqs |-> IdleReq]
  /\ started = 0

\* createSale prices the body and hands the totals to Sale.create
SaleTotals ==
  /\ ~totals.priced
  /\ totals' = [totals EXCEPT
       !.priced = TRUE,
       !.stored = StoredTotals(totals.items, totals.discountType, totals.discountValue)]
  /\ UNCHANGED <<ledger, principal, check, account>>

TotalsNext == SaleTotals

TotalsSpec == TotalsInit /\ [][TotalsNext]_vars

\* ------------------------------------------------------- ledger claims
AtRest == \A r \in Reqs : ~InFlight(r)

\* stock level the seeds left for product p
SeedLevel(p) == IF SeedStock[p].exists THEN SeedStock[p].quantity ELSE 0

\* the adjustments of product p, in creation order
AdjustmentsOf(p) == SelectSeq(adjustments, LAMBDA a : a.product = p)

\* C1: every persisted StockRecord quantity is >= 0 in every reachable state,
\* under every interleaving of the stock-changing handlers
StockNeverNegative == \A p \in Products : stock[p].exists => stock[p].quantity >= 0

\* C1 witness: a handler tried to save a negative quantity and the schema
\* validator rejected the write
StockWriteRejected ==
  \E r \in Reqs : req[r].pc = "done" /\ req[r].result = "StockValidationError"

\* C2: whenever a request finishes, with success or with an error, it has
\* written exactly one StockAdjustment per change it made to a Stock quantity
BothOrNeither == \A r \in Reqs : req[r].pc = "done" => req[r].nw = req[r].na

\* C3: two createSale requests that overlapped and both succeeded, and nothing
\* else since the seeds, leave every product at its seeded level minus the
\* quantities both sold
NoLostUpdate ==
  (/\ started = Cardinality(Reqs)
   /\ \A r \in Reqs : req[r].op = "createSale" /\ req[r].pc = "done" /\ req[r].result = "ok")
  => \A p \in Products :
       Qty(p) = SeedLevel(p) - Requested(req[1].lines, p) - Requested(req[2].lines, p)

\* the adjustments of p form a chain from 0 to the current quantity
CausalChain(p) ==
  LET A == AdjustmentsOf(p) IN
  A # <<>> =>
    /\ A[1].previousQuantity = 0
    /\ \A k \in 1..(Len(A) - 1) : A[k + 1].previousQuantity = A[k].newQuantity
    /\ A[Len(A)].newQuantity = stock[p].quantity

\* C4: once two overlapping requests, each of which recorded every stock
\* change it made, have finished, the adjustments of every product form a
\* causal chain ending at the current StockRecord quantity
ChainAtRest ==
  (/\ started = Cardinality(Reqs)
   /\ \A r \in Reqs : req[r].pc = "done" /\ req[r].nw = req[r].na)
  => \A p \in Products : CausalChain(p)

IncreasingTypes == {"ADDITION", "PURCHASE", "RETURN", "TRANSFER_IN"}
DecreasingTypes == {"REDUCTION", "SALE", "DAMAGE", "THEFT", "TRANSFER_OUT", "WARRANTY_REPLACE"}

\* C5: every recorded StockAdjustment has newQuantity - previousQuantity equal
\* to +quantity for an increasing type, -quantity for a decreasing type, and
\* one of the two for CORRECTION
DeltaMatchesType ==
  \A k \in 1..Len(adjustments) :
    LET a == adjustments[k]
        d == a.newQuantity - a.previousQuantity
    IN /\ a.type \in IncreasingTypes => d = a.quantity
       /\ a.type \in DecreasingTypes => d = 0 - a.quantity
       /\ a.type = "CORRECTION" => d \in {a.quantity, 0 - a.quantity}

\* C6: an adjustStock that ends with the insufficient-stock error, as the
\* first request after the seeds, has created or modified no Stock record
\* and added no StockAdjustment
ReductionFailureLeavesState ==
  \A r \in Reqs :
    (/\ started = 1
     /\ req[r].op = "adjustStock"
     /\ req[r].pc = "done"
     /\ req[r].result = "InsufficientStock")
    => stock = SeedStock /\ adjustments = SeedAdjustments

\* C7: a createSale, the first request after the seeds, that asks for more of
\* a product than is in stock (over all its lines together) persists no Sale,
\* changes no stock and ends with the insufficient-stock error
OverAskingSaleFails ==
  \A r \in Reqs :
    (/\ started = 1
     /\ req[r].op = "createSale"
     /\ \E p \in Products : Requested(req[r].lines, p) > SeedLevel(p))
    => /\ sales = SeedSales
       /\ stock = SeedStock
       /\ req[r].pc = "done" => req[r].result = "InsufficientStock"

\* ----------------------------------------------------- resolver claims
\* the principal has exactly one override entry for code c, of type t
SingleOverride(c, t) ==
  /\ Cardinality({k \in 1..Len(principal.directPermissions) :
                    principal.directPermissions[k].permission = c}) = 1
  /\ \E k \in 1..Len(principal.directPermissions) :
       principal.directPermissions[k] = [permission |-> c, type |-> t]

\* the principal has both an ALLOW and a DENY entry for code c
ConflictingOverrides(c) ==
  /\ [permission |-> c, type |-> "ALLOW"] \in Range(principal.directPermissions)
  /\ [permission |-> c, type |-> "DENY"] \in Range(principal.directPermissions)

\* the last check was a permission check for code c alone
CheckedCode(c) == check.fn \in {"authorize", "hasPermission"} /\ check.required = <<c>>

\* C8: with a single direct override on code c, a DENY makes the check for c
\* fail even if a role grants c, an ALLOW makes it pass even if no role grants
\* c; a super admin passes every check
SingleOverrideDecides ==
  /\ (principal.isSuperAdmin /\ check.fn \in {"authorize", "hasPermission"}) => check.granted
  /\ \A c \in Codes :
       (~principal.isSuperAdmin /\ CheckedCode(c)) =>
         /\ SingleOverride(c, "DENY") => ~check.granted
         /\ SingleOverride(c, "ALLOW") => check.granted

\* C8 witness: authorize refused a code that a role of the principal grants,
\* because of the principal's single DENY override
DenyOverrodeRole ==
  \E c \in Codes :
    /\ ~principal.isSuperAdmin
    /\ check.fn = "authorize" /\ check.required = <<c>>
    /\ SingleOverride(c, "DENY")
    /\ c \in rolePerms(principal)
    /\ ~check.granted

SoldThenVoided ==
  /\ started = 2
  /\ \A r \in Reqs \ {1} : req[r].op = "idle"
  /\ req[1].op = "voidSale" /\ req[1].pc = "done" /\ req[1].result = "ok"
  /\ req[1].ref = Len(SeedSales) + 1
  /\ returns = <<>>
  /\ \A k \in 1..Len(SeedSales) : ~sales[k].deleted
  /\ Len(adjustments) = Len(SeedAdjustments) + 2 * Len(sales[req[1].ref].items)

\* C11: a createSale followed by a voidSale of that sale, with nothing else in
\* between, leaves every product's stock at its level before the sale
VoidRoundTrip == SoldThenVoided => \A p \in Products : Qty(p) = SeedLevel(p)

\* C11 witness: a sale of several units was made and then voided
SaleVoidedAfterSelling ==
  /\ SoldThenVoided
  /\ \E p \in Products : Requested(sales[req[1].ref].items, p) >= 2

\* C12: of two voidSale requests that were both let through on the same sale,
\* at least one fails without writing any stock quantity or any adjustment
VoidHappensOnce ==
  \A r1, r2 \in Reqs :
    (/\ r1 # r2
     /\ req[r1].op = "voidSale" /\ req[r2].op = "voidSale"
     /\ req[r1].ref # 0 /\ req[r1].ref = req[r2].ref
     /\ req[r1].pc = "done" /\ req[r2].pc = "done")
    => \E r \in {r1, r2} : req[r].result # "ok" /\ req[r].nw = 0 /\ req[r].na = 0

\* C18: every EXCHANGE Return stores exchangeAmountDue = newItemsTotal -
\* totalRefund, the total of the exchange sale's items minus the refund of the
\* returned items, negative when the returned items are worth more
ExchangeDueStored ==
  \A k \in 1..Len(returns) :
    returns[k].returnType = "EXCHANGE" =>
      returns[k].exchangeAmountDue =
        LinesTotal(sales[returns[k].exchangeSale].items, "SALE")
          - LinesTotal(returns[k].items, "RETURN")

\* a createReturn or createExchange in slot r answered with success, and no
\* other request ran since the seeds but the ones before it in the same slot
ReturnedAlone(r) ==
  /\ req[r].op \in {"createReturn", "createExchange"}
  /\ req[r].pc = "done" /\ req[r].result = "ok"
  /\ \A o \in Reqs \ {r} : req[o].op = "idle"

PartialSaleNotPersisted ==
  \A r \in Reqs :
    (/\ started = 1
     /\ req[r].op = "createSale" /\ req[r].pc = "done"
     /\ req[r].result \in {"StockValidationError", "AdjustmentValidationError"}
     /\ req[r].nw >= 1)
    => /\ \A p \in Products :
            Qty(p) = SeedLevel(p) - Requested(SubSeq(req[r].lines, 1, req[r].nw), p)
       /\ sales = SeedSales

\* ------------------------------------------------------- repair claims
AllowedTransitions ==
  {<<"RECEIVED", "IN_PROGRESS">>, <<"IN_PROGRESS", "READY">>, <<"READY", "COMPLETED">>,
   <<"RECEIVED", "CANCELLED">>, <<"IN_PROGRESS", "CANCELLED">>, <<"READY", "CANCELLED">>}

\* a step changes the stored status of a job only along an allowed transition
StatusStepAllowed ==
  \A j \in 1..Len(repairs) :
    repairs'[j].status # repairs[j].status =>
      <<repairs[j].status, repairs'[j].status>> \in AllowedTransitions

\* C16: every change of a repair job's status is RECEIVED to IN_PROGRESS,
\* IN_PROGRESS to READY, READY to COMPLETED or RECEIVED/IN_PROGRESS/READY to
\* CANCELLED; a COMPLETED or CANCELLED job never changes status
RepairTransitions == [][StatusStepAllowed]_vars

\* quantity of p that the adjustments written for job j by one handler carry
JobQuantity(j, p, handler) ==
  Requested(SelectSeq(adjustments,
                      LAMBDA a : a.reason = handler /\ a.reference = j), p)

\* quantity of p listed as used on job j when the repair seed created it
SeedParts(j, p) == IF j <= Len(SeedRepairs) THEN Requested(SeedRepairs[j].partsUsed, p) ELSE 0

\* C17: for every job and product, cancelRepair has restored no more than
\* the parts the job consumed (deducted by completeRepair, or listed on the
\* job by the seed): consumed parts are never restored more than once
CancelRestoresOnce ==
  \A j \in 1..Len(repairs), p \in Products :
    JobQuantity(j, p, "cancelRepair") <= JobQuantity(j, p, "completeRepair") + SeedParts(j, p)

\* ----------------------------------------------------- warranty claims
\* request r is a createClaim with resolution REFUND that found the warranty
\* valid, has responded, and is the only request served so far
RefundClaimServed(r) ==
  /\ started = 1
  /\ req[r].op = "createClaim" /\ req[r].resolution = "REFUND" /\ req[r].pc = "done"
  /\ req[r].result \notin {"WarrantyVoided", "WarrantyExpired"}

\* C13: a createClaim with resolution REFUND on a valid warranty, linked to a
\* sale or not, succeeds, leaves the warranty VOID and has created exactly
\* one Return, for the warranty's sale
RefundClaimVoids ==
  \A r \in Reqs :
    RefundClaimServed(r) =>
      /\ req[r].result = "ok"
      /\ warranties[req[r].ref].status = "VOID"
      /\ Len(returns) = 1
      /\ returns[1].originalSale = warranties[req[r].ref].sale

\* the claims, over all warranties, that link repair job j
ClaimsLinking(j) ==
  {<<w, c>> \in (1..Len(warranties)) \X (1..MaxRequests) :
     c <= Len(warranties[w].claims) /\ warranties[w].claims[c].repairJob = j}

\* C14: every stored claim carries the one side effect of its resolution: a
\* REPLACE claim the product whose stock was deducted, a REFUND claim its
\* Return on a VOID warranty, a REPAIR claim a repair job no other claim links
ResolutionAppliedOnce ==
  \A w \in 1..Len(warranties) :
    \A c \in 1..Len(warranties[w].claims) :
      LET claim == warranties[w].claims[c] IN
      /\ claim.resolution = "REPLACE" => claim.replacementProduct \in Products
      /\ claim.resolution = "REFUND" =>
           claim.returnRecord \in 1..Len(returns) /\ warranties[w].status = "VOID"
      /\ claim.resolution = "REPAIR" =>
           claim.repairJob \in 1..Len(repairs) /\ ClaimsLinking(claim.repairJob) = {<<w, c>>}

\* a step leaves every VOID warranty VOID
VoidStays ==
  \A w \in 1..Len(warranties) :
    warranties[w].status = "VOID" => warranties'[w].status = "VOID"

\* C15: VOID is terminal: a warranty whose persisted status is VOID keeps it
\* through every step of createClaim, updateClaim, voidWarranty, createReturn
\* and the expiry sweep, however the requests interleave
VoidTerminal == [][VoidStays]_vars

\* ------------------------------------------- claims on stored repair jobs
\* C26: in every reachable state the stored status of every repair job is
\* one of RECEIVED, IN_PROGRESS, READY, COMPLETED, CANCELLED, also after
\* assignTechnician has saved a job that was neither COMPLETED nor CANCELLED
RepairStatusKnown == \A j \in 1..Len(repairs) : repairs[j].status \in REPAIR_STATUS

OwnRepairsSuffices ==
  \A r \in Reqs :
    ( /\ req[r].op \in {"GET /repairs/:id", "GET /repairs/number/:jobNumber"}
      /\ req[r].pc = "done" /\ req[r].result # "401"
      /\ permissionAllowed(principal, "VIEW_OWN_REPAIRS")
      /\ ~permissionAllowed(principal, "VIEW_REPAIRS")
      /\ ~principal.isSuperAdmin ) => req[r].result = "ok"

\* ------------------------------------------- claims on warranty statuses
AllowedWarrantyChanges ==
  {<<"ACTIVE", "CLAIMED">>, <<"ACTIVE", "EXPIRED">>, <<"ACTIVE", "VOID">>,
   <<"CLAIMED", "VOID">>, <<"CLAIMED", "EXPIRED">>}

\* a step changes the stored status of a warranty only along an allowed change
WarrantyStepAllowed ==
  \A w \in 1..Len(warranties) :
    warranties'[w].status # warranties[w].status =>
      <<warranties[w].status, warranties'[w].status>> \in AllowedWarrantyChanges

\* C24: every change of a warranty's status is ACTIVE to CLAIMED, ACTIVE to
\* EXPIRED, ACTIVE to VOID, CLAIMED to VOID or CLAIMED to EXPIRED; no other
\* change, such as EXPIRED to VOID, occurs
WarrantyTransitions == [][WarrantyStepAllowed]_vars

\* C25: a validity check that found a non-VOID warranty past its end date,
\* and is the only request served so far, leaves the stored status EXPIRED
ExpiredOnRead ==
  \A r \in Reqs :
    (started = 1 /\ req[r].op = "checkWarrantyStatus" /\ req[r].pc = "done"
       /\ req[r].result = "WarrantyExpired") =>
      warranties[req[r].ref].status = "EXPIRED"

StoredClaimNumbers ==
  [w \in 1..Len(warranties) |-> [c \in 1..Len(warranties[w].claims) |-> warranties[w].claims[c].claimNumber]]
ClaimNumbersUnique ==
  /\ \A r1, r2 \in Reqs :
       (r1 # r2 /\ req[r1].op = "createClaim" /\ req[r2].op = "createClaim"
          /\ req[r1].num # 0 /\ req[r2].num # 0)
       => req[r1].num # req[r2].num
  /\ \A w1, w2 \in 1..Len(warranties) :
       \A c1 \in 1..Len(warranties[w1].claims), c2 \in 1..Len(warranties[w2].claims) :
         (<<w1, c1>> # <<w2, c2>>) => StoredClaimNumbers[w1][c1] # StoredClaimNumbers[w2][c2]

\* request r is a finished createClaim with resolution REPLACE
ReplaceClaimDone(r) ==
  req[r].op = "createClaim" /\ req[r].resolution = "REPLACE" /\ req[r].pc = "done"

\* C27: createClaim with resolution REPLACE on a valid warranty whose product
\* has stock >= 1 succeeds, takes exactly one unit off the stock and records
\* one WARRANTY_REPLACE adjustment; refused for stock below 1 it writes nothing.
\* A request that wrote the stock found the warranty valid and the stock >= 1.
ReplaceClaimSucceeds ==
  \A r \in Reqs : ReplaceClaimDone(r) =>
    /\ (req[r].nw >= 1) => (req[r].result = "ok" /\ req[r].nw = 1 /\ req[r].na = 1)
    /\ (req[r].result = "InsufficientStock") => (req[r].nw = 0 /\ req[r].na = 0)

\* adjustment a put units back into stock on account of sale s: the void of
\* the sale, or a return or exchange whose record names s as its original sale
RestoresFor(a, s) ==
  /\ a.type = "RETURN"
  /\ \/ a.reason = "voidSale" /\ a.reference = s
     \/ /\ a.reason \in {"createReturn", "createExchange"}
        /\ \E k \in 1..Len(returns) :
             returns[k].returnNumber = a.reference /\ returns[k].originalSale = s

\* units of product p put back into stock on account of sale s
RECURSIVE RestoredFor(_, _, _)
RestoredFor(adjs, s, p) ==
  IF adjs = <<>> THEN 0
  ELSE (IF Head(adjs).product = p /\ RestoresFor(Head(adjs), s) THEN Head(adjs).quantity ELSE 0)
       + RestoredFor(Tail(adjs), s, p)

\* C28: for every sale, the quantity put back into stock on account of its
\* items, summed over all returns, exchanges and a void of the sale, never
\* exceeds the quantity sold (stated per product of the sale, which the
\* per-item bound implies)
RestoredAtMostSold ==
  \A s \in 1..Len(sales), p \in Products :
    RestoredFor(adjustments, s, p) <= Requested(sales[s].items, p)

\* C29: every repair job in status COMPLETED is fully paid: advancePayment +
\* finalPayment >= totalCost, and its stored paymentStatus is PAID, the status
\* collectPayment reports to the caller
CompletedIsPaid ==
  \A j \in 1..Len(repairs) :
    repairs[j].status = "COMPLETED" =>
      /\ repairs[j].advancePayment + repairs[j].finalPayment >= repairs[j].totalCost
      /\ repairs[j].paymentStatus = "PAID"
====
